---- MODULE Spec2Model ----
(***************************************************************************)
(* Model of src-tauri/src/lib.rs: the ffmpeg locator (find_ffmpeg,         *)
(* check_ffmpeg), the unique output path generator                         *)
(* (get_unique_output_path) and the conversion command (convert_file).     *)
(*                                                                         *)
(* Paths of output files are sequences of one-character strings, so that   *)
(* parent(), file_stem(), join() and format!() are computed rather than    *)
(* assumed.  Paths of ffmpeg binaries are only compared, never taken       *)
(* apart, and are plain strings.                                           *)
(***************************************************************************)
EXTENDS Integers, Sequences, FiniteSets

VARIABLES
    platform,     \* target_os the crate was built for
    exists,       \* binary paths for which PathBuf::exists() is true
    probe,        \* binary path -> outcome of running it with "-version"
    home,         \* dirs::home_dir() is Some
    fs,           \* output files that exist on the filesystem
    pc,           \* "idle", "loop", "returned", "done"
    op,           \* the running call: "none", "check", "unique", "convert"
    input_path,   \* argument of the running call
    parent,       \* the local of get_unique_output_path
    stem,         \* the local of get_unique_output_path
    ffmpeg_path,  \* Option<String>: what find_ffmpeg returned
    probed,       \* the exists() and spawn calls find_ffmpeg made, in order
    output_path,  \* Option<PathBuf>: the local of get_unique_output_path
    counter,      \* the local of get_unique_output_path
    checks,       \* number of output_path.exists() calls of the running call
    spawn,        \* Option: the transcode process convert_file spawned
    result,       \* Option: what the command returned to its caller
    history       \* the last two paths get_unique_output_path returned

vars == <<platform, exists, probe, home, fs, pc, op, input_path, parent, stem,
          ffmpeg_path, probed, output_path, counter, checks, spawn, result,
          history>>

envVars == <<platform, exists, probe, home>>

----------------------------------------------------------------------------
(* Option<T> *)

None == <<>>

Some(x) == <<x>>

Unwrap(o) == o[1]

----------------------------------------------------------------------------
(* Bounds of the model *)

\* Output files stem.mp4, stem_1.mp4 .. stem_<MaxSuffix>.mp4 of every input
\* may exist initially and may be created by the external writer; a
\* conversion may add the next one, and no further conversion is started
\* until that one is removed.
MaxSuffix == 1

\* One initial filesystem per input has stem.mp4 .. stem_<MaxRun>.mp4 all
\* occupied, so that the counter reaches two digits.
MaxRun == 10

----------------------------------------------------------------------------
(* std::path, on sequences of characters *)

Sep == "/"

Dot == "."

RECURSIVE SplitAt(_, _)
\* The components of p between separators, empty ones dropped.
SplitAt(p, cur) ==
    IF p = <<>> THEN (IF cur = <<>> THEN <<>> ELSE <<cur>>)
    ELSE IF Head(p) = Sep
         THEN (IF cur = <<>> THEN <<>> ELSE <<cur>>) \o SplitAt(Tail(p), <<>>)
         ELSE SplitAt(Tail(p), Append(cur, Head(p)))

HasRoot(p) == p # <<>> /\ p[1] = Sep

\* Path::components() without the root: "." is kept only as a leading
\* component of a relative path.
Components(p) ==
    LET raw == SplitAt(p, <<>>)
        keep(i) == raw[i] # <<Dot>> \/ (i = 1 /\ ~HasRoot(p))
    IN SelectSeq([i \in 1..Len(raw) |-> <<i, raw[i]>>],
                 LAMBDA e : keep(e[1]))

Comp(p, i) == Components(p)[i][2]

NumComps(p) == Len(Components(p))

RECURSIVE JoinComps(_, _, _)
JoinComps(p, i, n) ==
    IF i > n THEN <<>>
    ELSE Comp(p, i) \o (IF i < n THEN <<Sep>> ELSE <<>>) \o JoinComps(p, i + 1, n)

\* Path::parent(): None for the empty path and for the root, otherwise the
\* path without its last component.
Parent(p) ==
    IF NumComps(p) = 0 THEN None
    ELSE Some((IF HasRoot(p) THEN <<Sep>> ELSE <<>>)
              \o JoinComps(p, 1, NumComps(p) - 1))

\* Path::file_name(): the last component when it is a normal one.
FileName(p) ==
    IF NumComps(p) = 0 THEN None
    ELSE LET last == Comp(p, NumComps(p))
         IN IF last = <<Dot, Dot>> \/ last = <<Dot>> THEN None ELSE Some(last)

\* Index of the last "." of name, 0 when there is none.
LastDot(name) ==
    LET dots == {i \in 1..Len(name) : name[i] = Dot}
    IN IF dots = {} THEN 0 ELSE CHOOSE i \in dots : \A j \in dots : j <= i

\* Path::file_stem(): the file name up to its last ".", the whole name when
\* it has no "." or only a leading one.
FileStem(p) ==
    IF FileName(p) = None THEN None
    ELSE LET name == Unwrap(FileName(p))
             d == LastDot(name)
         IN IF d <= 1 THEN Some(name) ELSE Some(SubSeq(name, 1, d - 1))

\* Path::join() with a relative right-hand side.
Join(base, name) ==
    IF base = <<>> \/ base[Len(base)] = Sep THEN base \o name
    ELSE base \o <<Sep>> \o name

Digits == <<"0", "1", "2", "3", "4", "5", "6", "7", "8", "9">>

RECURSIVE Decimal(_)
\* format!("{}", n) of a non-negative integer.
Decimal(n) ==
    IF n < 10 THEN <<Digits[n + 1]>>
    ELSE Decimal(n \div 10) \o <<Digits[(n % 10) + 1]>>

----------------------------------------------------------------------------
(* get_unique_output_path *)

Mp4 == <<".", "m", "p", "4">>

\* let parent = path.parent().unwrap_or_else(|| Path::new("."))
ParentOf(input) == IF Parent(input) = None THEN <<Dot>> ELSE Unwrap(Parent(input))

\* let stem = path.file_stem().unwrap_or_default().to_string_lossy()
StemOf(input) == IF FileStem(input) = None THEN <<>> ELSE Unwrap(FileStem(input))

\* parent.join(format!("{}.mp4", stem))
FirstCandidate(dir, name) == Join(dir, name \o Mp4)

\* parent.join(format!("{}_{}.mp4", stem, counter))
NextCandidate(dir, name, n) == Join(dir, name \o <<"_">> \o Decimal(n) \o Mp4)

\* (variant: the suffix counter starts at 0)
InitialCounter_Zero == 1 - 1

\* let mut counter = 1
InitialCounter == 1

\* (variant: the counter is advanced twice per iteration)
CounterStep_Two == 1 + 1

\* counter += 1
CounterStep == 1

\* The inputs convert_file is called with: "/t/v.mov", "/t/v_1" and "c.mkv".
V_MOV == <<"/", "t", "/", "v", ".", "m", "o", "v">>

V_1 == <<"/", "t", "/", "v", "_", "1">>

C_MKV == <<"c", ".", "m", "k", "v">>

Inputs == {V_MOV, V_1, C_MKV}

\* The k-th path of the sequence stem.mp4, stem_1.mp4, stem_2.mp4, ...
SeqPath(input, k) ==
    IF k = 0 THEN FirstCandidate(ParentOf(input), StemOf(input))
    ELSE NextCandidate(ParentOf(input), StemOf(input), k)

\* The output files that may exist initially.
Universe == {SeqPath(i, k) : i \in Inputs, k \in 0..MaxSuffix}

\* stem.mp4 .. stem_<n>.mp4 of one input
Run(input, n) == {SeqPath(input, k) : k \in 0..n}

\* Entry of get_unique_output_path: lines 96-103.
BeginUnique(input) ==
    /\ input_path' = input
    /\ parent' = ParentOf(input)
    /\ stem' = StemOf(input)
    /\ output_path' = Some(FirstCandidate(ParentOf(input), StemOf(input)))
    /\ counter' = InitialCounter
    /\ checks' = 0

\* (variant: `if` in place of `while`, the suffixed path is not checked)
LoopStep_IfOnce ==
    /\ pc = "loop"
    /\ checks' = checks + 1
    /\ IF Unwrap(output_path) \in fs /\ checks = 0
       THEN /\ output_path' = Some(NextCandidate(parent, stem, counter))
            /\ counter' = counter + CounterStep
            /\ pc' = "loop"
       ELSE /\ pc' = "returned"
            /\ UNCHANGED <<output_path, counter>>
    /\ UNCHANGED <<envVars, fs, op, input_path, parent, stem, ffmpeg_path, probed, spawn,
                   result, history>>

\* (variant: the returned path is created to reserve it)
LoopStep_Reserve ==
    /\ pc = "loop"
    /\ checks' = checks + 1
    /\ IF Unwrap(output_path) \in fs
       THEN /\ output_path' = Some(NextCandidate(parent, stem, counter))
            /\ counter' = counter + CounterStep
            /\ pc' = "loop"
            /\ fs' = fs
       ELSE /\ pc' = "returned"
            /\ fs' = fs \cup {Unwrap(output_path)}
            /\ UNCHANGED <<output_path, counter>>
    /\ UNCHANGED <<envVars, op, input_path, parent, stem, ffmpeg_path, probed, spawn,
                   result, history>>

\* One evaluation of the loop condition of lines 104-107 and, when it is
\* false, the return of line 109.
LoopStep ==
    /\ pc = "loop"
    /\ checks' = checks + 1
    /\ IF Unwrap(output_path) \in fs
       THEN /\ output_path' = Some(NextCandidate(parent, stem, counter))
            /\ counter' = counter + CounterStep
            /\ pc' = "loop"
       ELSE /\ pc' = "returned"
            /\ UNCHANGED <<output_path, counter>>
    /\ UNCHANGED <<envVars, fs, op, input_path, parent, stem, ffmpeg_path, probed, spawn,
                   result, history>>

\* The locals of a call that has ended.
CallEnded ==
    /\ pc' = "idle"
    /\ op' = "none"
    /\ input_path' = <<>>
    /\ parent' = <<>>
    /\ stem' = <<>>
    /\ ffmpeg_path' = None
    /\ probed' = <<>>
    /\ output_path' = None
    /\ counter' = 0
    /\ checks' = 0
    /\ spawn' = None
    /\ result' = None

\* A direct call of get_unique_output_path(input).
CallUnique(input) ==
    /\ pc = "idle"
    /\ BeginUnique(input)
    /\ pc' = "loop"
    /\ op' = "unique"
    /\ ffmpeg_path' = None
    /\ probed' = <<>>
    /\ spawn' = None
    /\ result' = None
    /\ UNCHANGED <<envVars, fs, history>>

\* The caller receives the path; it keeps the last two it was given.
UniqueReturn ==
    /\ pc = "returned"
    /\ op = "unique"
    /\ CallEnded
    /\ history' = (IF history = <<>> THEN <<>> ELSE <<history[Len(history)]>>)
                  \o <<<<input_path, Unwrap(output_path)>>>>
    /\ UNCHANGED <<envVars, fs>>

----------------------------------------------------------------------------
(* find_ffmpeg *)

Platforms == {"macos", "windows", "linux"}

\* const FFMPEG_PATHS, one per target_os
FFMPEG_PATHS(os) ==
    CASE os = "macos" ->
           <<"/opt/homebrew/bin/ffmpeg", "/usr/local/bin/ffmpeg", "/usr/bin/ffmpeg">>
      [] os = "windows" ->
           <<"ffmpeg", "C:\\Program Files\\ffmpeg\\bin\\ffmpeg.exe",
             "C:\\ffmpeg\\bin\\ffmpeg.exe">>
      [] os = "linux" ->
           <<"/usr/bin/ffmpeg", "/usr/local/bin/ffmpeg", "/snap/bin/ffmpeg">>

\* home.join(...): the user-local install path ("~" stands for the home
\* directory)
local_ffmpeg(os) ==
    IF os = "windows" THEN "~\\AppData\\Local\\ffmpeg\\ffmpeg.exe"
    ELSE "~/.local/bin/ffmpeg"

Range(s) == {s[i] : i \in 1..Len(s)}

BinPaths(os) == Range(FFMPEG_PATHS(os)) \cup {local_ffmpeg(os)}

\* Command::output(): spawned and exited 0, spawned and exited non-zero, or
\* Err (the process could not be spawned).
Outcomes == {"ok", "nonzero", "spawnfail"}

\* (variant: the existence test is skipped)
ShouldProbe_Always(path, ex) == TRUE

\* path_buf.exists() || path == &"ffmpeg"
ShouldProbe(path, ex) == path \in ex \/ path = "ffmpeg"

\* (variant: the exit status is ignored)
ProbeSucceeds_AnyExit(outcome) == outcome # "spawnfail"

\* if let Ok(output) = result { if output.status.success() {
ProbeSucceeds(outcome) == outcome = "ok"

ExistsCall(path) == <<"exists", path>>

SpawnCall(path) == <<"spawn", path>>

RECURSIVE ScanFrom(_, _, _, _)
\* The for loop of lines 31-51 from the i-th candidate on: what it returns
\* (None when it falls through) and the calls it makes.
ScanFrom(paths, i, ex, pr) ==
    IF i > Len(paths) THEN [result |-> None, log |-> <<>>]
    ELSE LET path == paths[i]
             rest == ScanFrom(paths, i + 1, ex, pr)
         IN IF ShouldProbe(path, ex)
            THEN IF ProbeSucceeds(pr[path])
                 THEN [result |-> Some(path),
                       log |-> <<ExistsCall(path), SpawnCall(path)>>]
                 ELSE [result |-> rest.result,
                       log |-> <<ExistsCall(path), SpawnCall(path)>> \o rest.log]
            ELSE [result |-> rest.result, log |-> <<ExistsCall(path)>> \o rest.log]

\* (variant: the fallback is probed without the existence test)
FallbackCheck_NoExists(os, ex, pr, hm) ==
    IF ~hm THEN [result |-> None, log |-> <<>>]
    ELSE LET path_str == local_ffmpeg(os)
         IN IF ProbeSucceeds(pr[path_str])
            THEN [result |-> Some(path_str), log |-> <<SpawnCall(path_str)>>]
            ELSE [result |-> None, log |-> <<SpawnCall(path_str)>>]

\* Lines 54-83: the user-local install, consulted when home_dir() is Some.
FallbackCheck(os, ex, pr, hm) ==
    IF ~hm THEN [result |-> None, log |-> <<>>]
    ELSE LET path_str == local_ffmpeg(os)
         IN IF path_str \in ex
            THEN IF ProbeSucceeds(pr[path_str])
                 THEN [result |-> Some(path_str),
                       log |-> <<ExistsCall(path_str), SpawnCall(path_str)>>]
                 ELSE [result |-> None,
                       log |-> <<ExistsCall(path_str), SpawnCall(path_str)>>]
            ELSE [result |-> None, log |-> <<ExistsCall(path_str)>>]

RECURSIVE ScanAbort(_, _, _, _)
\* (variant: a probe that cannot be spawned ends the search with None)
ScanAbort(paths, i, ex, pr) ==
    IF i > Len(paths) THEN [result |-> None, log |-> <<>>, abort |-> FALSE]
    ELSE LET path == paths[i]
             rest == ScanAbort(paths, i + 1, ex, pr)
             calls == <<ExistsCall(path), SpawnCall(path)>>
         IN IF ShouldProbe(path, ex)
            THEN IF pr[path] = "spawnfail"
                 THEN [result |-> None, log |-> calls, abort |-> TRUE]
                 ELSE IF ProbeSucceeds(pr[path])
                      THEN [result |-> Some(path), log |-> calls, abort |-> FALSE]
                      ELSE [result |-> rest.result, log |-> calls \o rest.log,
                            abort |-> rest.abort]
            ELSE [result |-> rest.result, log |-> <<ExistsCall(path)>> \o rest.log,
                  abort |-> rest.abort]

find_ffmpeg_SpawnErrReturns(os, ex, pr, hm) ==
    LET scan == ScanAbort(FFMPEG_PATHS(os), 1, ex, pr)
        local == FallbackCheck(os, ex, pr, hm)
    IN IF scan.result # None \/ scan.abort
       THEN [result |-> scan.result, log |-> scan.log]
       ELSE [result |-> local.result, log |-> scan.log \o local.log]

\* fn find_ffmpeg() -> Option<String>, as a function of the build target and
\* of the environment it reads.
find_ffmpeg(os, ex, pr, hm) ==
    LET scan == ScanFrom(FFMPEG_PATHS(os), 1, ex, pr)
        local == FallbackCheck(os, ex, pr, hm)
    IN IF scan.result # None THEN scan
       ELSE [result |-> local.result, log |-> scan.log \o local.log]

\* The call of find_ffmpeg() in the running command.
FindFfmpeg == find_ffmpeg(platform, exists, probe, home)

\* #[tauri::command] fn check_ffmpeg() -> bool
CheckFfmpeg ==
    /\ pc = "idle"
    /\ op' = "check"
    /\ ffmpeg_path' = FindFfmpeg.result
    /\ probed' = FindFfmpeg.log
    /\ result' = Some([cmd |-> "check_ffmpeg", value |-> FindFfmpeg.result # None])
    /\ pc' = "done"
    /\ input_path' = <<>>
    /\ parent' = <<>>
    /\ stem' = <<>>
    /\ output_path' = None
    /\ counter' = 0
    /\ checks' = 0
    /\ spawn' = None
    /\ UNCHANGED <<envVars, fs, history>>

\* The command's answer has been delivered; the next command may start.
Finish ==
    /\ pc = "done"
    /\ CallEnded
    /\ UNCHANGED <<envVars, fs, history>>

----------------------------------------------------------------------------
(* convert_file *)

\* (variant: ffmpeg is told never to overwrite)
TranscodeCommand_NoClobber(os, ffmpeg, input, output_str) ==
    IF os = "windows"
    THEN [program |-> "cmd",
          args |-> <<"/C", ffmpeg, "-i", input, "-codec", "copy", "-n", output_str>>]
    ELSE [program |-> ffmpeg,
          args |-> <<"-i", input, "-codec", "copy", "-n", output_str>>]

\* Command::new(..).args([.., "-i", &input_path, "-codec", "copy", "-y",
\* &output_str]), through cmd /C on Windows
TranscodeCommand(os, ffmpeg, input, output_str) ==
    IF os = "windows"
    THEN [program |-> "cmd",
          args |-> <<"/C", ffmpeg, "-i", input, "-codec", "copy", "-y", output_str>>]
    ELSE [program |-> ffmpeg,
          args |-> <<"-i", input, "-codec", "copy", "-y", output_str>>]

\* The flag ffmpeg is given right before the output path.
OverwriteFlag(args) == args[Len(args) - 1]

\* The output path ffmpeg is given: its last argument.
OutputArg(args) == args[Len(args)]

\* (variant: the exit status of the transcode is ignored)
TranscodeResult_IgnoreStatus(outcome, output_str) ==
    IF outcome = "spawnfail"
    THEN [kind |-> "Err", value |-> "Failed to run ffmpeg: "]
    ELSE [kind |-> "Ok", value |-> output_str]

\* match result { ... } of lines 130-140
TranscodeResult(outcome, output_str) ==
    CASE outcome = "ok" -> [kind |-> "Ok", value |-> output_str]
      [] outcome = "nonzero" -> [kind |-> "Err", value |-> "ffmpeg failed: "]
      [] outcome = "spawnfail" -> [kind |-> "Err", value |-> "Failed to run ffmpeg: "]

\* #[tauri::command] fn convert_file(input_path): find_ffmpeg()? and, when
\* it found a binary, the entry of get_unique_output_path.
ConvertFile(input) ==
    /\ pc = "idle"
    /\ fs \subseteq Universe
    /\ op' = "convert"
    /\ ffmpeg_path' = FindFfmpeg.result
    /\ probed' = FindFfmpeg.log
    /\ spawn' = None
    /\ IF FindFfmpeg.result = None
       THEN /\ result' = Some([kind |-> "Err", value |-> "ffmpeg not found"])
            /\ pc' = "done"
            /\ input_path' = input
            /\ parent' = <<>>
            /\ stem' = <<>>
            /\ output_path' = None
            /\ counter' = 0
            /\ checks' = 0
       ELSE /\ BeginUnique(input)
            /\ result' = None
            /\ pc' = "loop"
    /\ UNCHANGED <<envVars, fs, history>>

\* Lines 118-140: ffmpeg is run on the path get_unique_output_path returned.
\* ffmpeg leaves an output file when it succeeds and may leave a partial one
\* when it fails; without -y it refuses to write onto an existing file.
Transcode ==
    /\ pc = "returned"
    /\ op = "convert"
    /\ LET output_str == Unwrap(output_path)
           cmd == TranscodeCommand(platform, Unwrap(ffmpeg_path), input_path,
                                   output_str)
           refused == OverwriteFlag(cmd.args) # "-y" /\ output_str \in fs
       IN \E outcome \in Outcomes, leaves \in BOOLEAN :
            /\ outcome = "ok" => leaves /\ ~refused
            /\ outcome = "spawnfail" => ~leaves
            /\ refused => ~leaves
            /\ spawn' = Some([program |-> cmd.program, args |-> cmd.args,
                              occupied |-> output_str \in fs, outcome |-> outcome])
            /\ fs' = IF leaves THEN fs \cup {output_str} ELSE fs
            /\ result' = Some(TranscodeResult(outcome, output_str))
    /\ pc' = "done"
    /\ UNCHANGED <<envVars, op, input_path, parent, stem, ffmpeg_path, probed, output_path,
                   counter, checks, history>>

----------------------------------------------------------------------------
(* The filesystem outside the program *)

\* Another process creates an output file.
ExternalCreate(f) ==
    /\ f \notin fs
    /\ fs' = fs \cup {f}
    /\ UNCHANGED <<envVars, pc, op, input_path, parent, stem, ffmpeg_path, probed, output_path,
                   counter, checks, spawn, result, history>>

\* Another process removes an output file.
ExternalRemove(f) ==
    /\ f \in fs
    /\ fs' = fs \ {f}
    /\ UNCHANGED <<envVars, pc, op, input_path, parent, stem, ffmpeg_path, probed, output_path,
                   counter, checks, spawn, result, history>>

----------------------------------------------------------------------------
(* Specifications *)

\* No command is running.
InitProc ==
    /\ pc = "idle"
    /\ op = "none"
    /\ input_path = <<>>
    /\ parent = <<>>
    /\ stem = <<>>
    /\ ffmpeg_path = None
    /\ probed = <<>>
    /\ output_path = None
    /\ counter = 0
    /\ checks = 0
    /\ spawn = None
    /\ result = None
    /\ history = <<>>

\* Every build target, every assignment of existence and probe outcomes.
InitEnvAll ==
    /\ platform \in Platforms
    /\ exists \in SUBSET BinPaths(platform)
    /\ probe \in [BinPaths(platform) -> Outcomes]
    /\ home \in BOOLEAN

\* Every build target, with nothing installed (no probe spawns), only the
\* user-local copy installed, or everything installed (every probe exits 0).
InitEnvFew ==
    /\ platform \in Platforms
    /\ exists \in {{}, {local_ffmpeg(platform)}, BinPaths(platform)}
    /\ probe = [b \in BinPaths(platform) |-> IF exists = {} THEN "spawnfail" ELSE "ok"]
    /\ home = TRUE

\* The locator alone: check_ffmpeg in every environment.
InitLocate == InitEnvAll /\ fs = {} /\ InitProc

NextLocate == CheckFfmpeg \/ Finish

SpecLocate == InitLocate /\ [][NextLocate]_vars

\* The generator alone, on a filesystem nobody else writes to.
InitUnique ==
    /\ platform = "linux"
    /\ exists = {}
    /\ probe = [b \in BinPaths("linux") |-> "spawnfail"]
    /\ home = FALSE
    /\ fs \in (SUBSET Universe) \cup {Run(i, MaxRun) : i \in Inputs}
    /\ InitProc

NextUnique ==
    \/ \E i \in Inputs : CallUnique(i)
    \/ LoopStep
    \/ UniqueReturn

SpecUnique == InitUnique /\ [][NextUnique]_vars

\* The loop is a running thread: its next step is eventually taken.
SpecUniqueFair == SpecUnique /\ WF_vars(LoopStep)

\* The commands of the application, with other processes writing to the
\* filesystem at any moment.
Init == InitEnvFew /\ fs \in SUBSET Universe /\ InitProc

Next ==
    \/ CheckFfmpeg
    \/ \E i \in Inputs : ConvertFile(i)
    \/ LoopStep
    \/ Transcode
    \/ Finish
    \/ \E f \in Universe : ExternalCreate(f)
    \/ \E f \in fs : ExternalRemove(f)

Spec == Init /\ [][Next]_vars

----------------------------------------------------------------------------
(* Properties of find_ffmpeg, checked under SpecLocate *)

Cands == FFMPEG_PATHS(platform)

Local == local_ffmpeg(platform)

\* check_ffmpeg has run find_ffmpeg and returned.
LocateDone == pc = "done" /\ op = "check"

\* The candidate exists (or is the bare command) and its probe exits 0.
Qualifies(path) == (path \in exists \/ path = "ffmpeg") /\ probe[path] = "ok"

NoCandidateQualifies == \A c \in Range(Cands) : ~Qualifies(c)

\* C1: find_ffmpeg returns the earliest candidate, in list order, that
\* exists (or is the bare command name) and whose version probe exits 0;
\* and a candidate it returns is that earliest qualifying one.
C1_EarliestQualifying ==
    LocateDone =>
        /\ \A i \in 1..Len(Cands) :
              (Qualifies(Cands[i]) /\ \A j \in 1..(i - 1) : ~Qualifies(Cands[j]))
                  => /\ ffmpeg_path = Some(Cands[i])
                     /\ Unwrap(result).value = TRUE
        /\ \A i \in 1..Len(Cands) :
              ffmpeg_path = Some(Cands[i])
                  => Qualifies(Cands[i]) /\ \A j \in 1..(i - 1) : ~Qualifies(Cands[j])

\* Two candidates qualify, the first of the list does not: the second is
\* returned.
C1_Witness ==
    /\ LocateDone
    /\ ~Qualifies(Cands[1]) /\ Qualifies(Cands[2]) /\ Qualifies(Cands[3])
    /\ Cands[1] \in exists
    /\ ffmpeg_path = Some(Cands[2])

\* No candidate that is a path exists and no bare command probes
\* successfully.
NoCandidateUsable ==
    \A c \in Range(Cands) : IF c = "ffmpeg" THEN probe[c] # "ok" ELSE c \notin exists

\* The user-local install path exists.
FallbackExists == home /\ Local \in exists

\* C2 as stated: whenever no candidate path exists and no bare command
\* probes successfully, find_ffmpeg returns None.
C2_NoCandidateGivesNone ==
    (LocateDone /\ NoCandidateUsable) => ffmpeg_path = None

\* C2, amended: whenever no candidate path exists, no bare command probes
\* successfully and the fallback path does not exist either, find_ffmpeg
\* returns None, and check_ffmpeg answers false rather than failing.
C2_NothingUsableGivesNone ==
    (LocateDone /\ NoCandidateUsable /\ ~FallbackExists)
        => /\ ffmpeg_path = None
           /\ result = Some([cmd |-> "check_ffmpeg", value |-> FALSE])

\* Nothing exists although every probe would succeed, and None is returned
\* after looking at every candidate and at the fallback.
C2_Witness ==
    /\ LocateDone /\ NoCandidateUsable /\ ~FallbackExists
    /\ home
    /\ \A c \in Range(Cands) \ {"ffmpeg"} : probe[c] = "ok"
    /\ Len(probed) > Len(Cands)
    /\ ffmpeg_path = None

\* Position of the first occurrence of call in the log, 0 when absent.
PosOf(call, log) ==
    IF call \in Range(log)
    THEN CHOOSE i \in 1..Len(log) : log[i] = call /\ \A j \in 1..(i - 1) : log[j] # call
    ELSE 0

\* C3: the fallback is returned exactly when no candidate matched, the
\* fallback exists and its probe exits 0; it is probed only when it exists
\* and no candidate matched; it is looked at only after every candidate.
C3_FallbackLast ==
    LocateDone =>
        /\ ffmpeg_path = Some(Local)
              <=> (NoCandidateQualifies /\ FallbackExists /\ probe[Local] = "ok")
        /\ SpawnCall(Local) \in Range(probed)
              => (FallbackExists /\ NoCandidateQualifies)
        /\ ExistsCall(Local) \in Range(probed)
              => /\ NoCandidateQualifies
                 /\ \A c \in Range(Cands) :
                       /\ PosOf(ExistsCall(c), probed) > 0
                       /\ PosOf(ExistsCall(c), probed) < PosOf(ExistsCall(Local), probed)
                 /\ PosOf(ExistsCall(Local), probed) >= Len(probed) - 1

\* A candidate exists but its probe fails, and the fallback is returned.
C3_Witness ==
    /\ LocateDone
    /\ \E c \in Range(Cands) : c \in exists
    /\ ffmpeg_path = Some(Local)

\* The probe outcomes with every spawn failure turned into a non-zero exit.
SpawnFailAsNonZero(pr) ==
    [b \in DOMAIN pr |-> IF pr[b] = "spawnfail" THEN "nonzero" ELSE pr[b]]

\* The call find_ffmpeg makes right after the probe of path fails.
CallAfterFailedProbe(path) ==
    LET k == CHOOSE i \in 1..Len(Cands) : Cands[i] = path
    IN IF path = Local THEN None
       ELSE IF k < Len(Cands) THEN Some(ExistsCall(Cands[k + 1]))
       ELSE IF home THEN Some(ExistsCall(Local))
       ELSE None

\* C4: a probe that fails to spawn is a non-match like a probe that exits
\* non-zero: the result and the calls made are those of the same
\* environment with the spawn failures replaced by non-zero exits, the
\* search goes on with the next candidate (then the fallback), and the
\* command answers with a boolean.
C4_SpawnFailureIsNonMatch ==
    LocateDone =>
        LET same == find_ffmpeg(platform, exists, SpawnFailAsNonZero(probe), home)
        IN /\ ffmpeg_path = same.result
           /\ probed = same.log
           /\ result = Some([cmd |-> "check_ffmpeg", value |-> ffmpeg_path # None])
           /\ \A i \in 1..Len(probed) :
                 (probed[i][1] = "spawn" /\ probe[probed[i][2]] = "spawnfail")
                     => /\ ffmpeg_path # Some(probed[i][2])
                        /\ LET after == CallAfterFailedProbe(probed[i][2])
                           IN IF after = None THEN i = Len(probed)
                              ELSE i < Len(probed) /\ probed[i + 1] = Unwrap(after)

\* The first candidate exists and cannot be spawned; the second is returned.
C4_Witness ==
    /\ LocateDone
    /\ ShouldProbe(Cands[1], exists) /\ probe[Cands[1]] = "spawnfail"
    /\ ffmpeg_path = Some(Cands[2])

----------------------------------------------------------------------------
(* Properties of get_unique_output_path, checked under SpecUnique *)

\* get_unique_output_path has returned output_path.
UniqueReturned == pc = "returned"

\* Index of the first unoccupied path of the sequence of input.
FirstFree(input) ==
    CHOOSE k \in 0..Cardinality(fs) :
        /\ SeqPath(input, k) \notin fs
        /\ \A j \in 0..(k - 1) : SeqPath(input, j) \in fs

\* "/t/v.mp4", "/t/v_1.mp4", "/t/v_2.mp4", "/t/v_11.mp4"
V_MP4 == <<"/", "t", "/", "v", ".", "m", "p", "4">>

V_1_MP4 == <<"/", "t", "/", "v", "_", "1", ".", "m", "p", "4">>

V_2_MP4 == <<"/", "t", "/", "v", "_", "2", ".", "m", "p", "4">>

V_11_MP4 == <<"/", "t", "/", "v", "_", "1", "1", ".", "m", "p", "4">>

\* C5: on a filesystem that is not modified during the call, the path
\* get_unique_output_path returns does not exist.
C5_ReturnedPathUnoccupied ==
    UniqueReturned => Unwrap(output_path) \notin fs

\* The call went past two occupied paths before it returned.
C5_Witness ==
    /\ UniqueReturned
    /\ checks >= 3
    /\ Unwrap(output_path) \notin fs

\* C6: the path returned is the first unoccupied one of stem.mp4,
\* stem_1.mp4, stem_2.mp4, ...: unsuffixed when stem.mp4 is free, stem_k.mp4
\* when stem.mp4 and stem_1 .. stem_(k-1) are occupied and stem_k is free.
C6_FirstUnoccupiedOfSequence ==
    UniqueReturned =>
        /\ output_path = Some(SeqPath(input_path, FirstFree(input_path)))
        /\ (input_path = V_MOV /\ V_MP4 \notin fs) => output_path = Some(V_MP4)
        /\ (input_path = V_MOV /\ {V_MP4, V_1_MP4} \subseteq fs /\ V_2_MP4 \notin fs)
              => output_path = Some(V_2_MP4)
        /\ (input_path = V_1 /\ V_1_MP4 \notin fs) => output_path = Some(V_1_MP4)

\* "/t/v.mp4" and "/t/v_1.mp4" exist and "/t/v_2.mp4" is returned.
C6_Witness ==
    /\ UniqueReturned
    /\ input_path = V_MOV
    /\ {V_MP4, V_1_MP4} \subseteq fs
    /\ output_path = Some(V_2_MP4)

\* Two calls in a row with the same input returned the same path.
RepeatedCallsAgree ==
    (Len(history) = 2 /\ history[1][1] = history[2][1]) => history[1][2] = history[2][2]

\* C7: repeated calls with the same input, with no file created or removed
\* in between, return the same path, and no step of a call changes the
\* filesystem.
C7_Idempotent == [](RepeatedCallsAgree) /\ [][fs' = fs]_vars

\* The same input was given twice and a suffixed path came back twice.
C7_Witness ==
    /\ Len(history) = 2
    /\ history[1][1] = history[2][1]
    /\ history[2][2] # SeqPath(history[2][1], 0)
    /\ history[1][2] = history[2][2]

----------------------------------------------------------------------------
(* Properties of convert_file, checked under Spec *)

\* convert_file has returned.
ConvertDone == pc = "done" /\ op = "convert"

\* C8: nothing stands between the return of get_unique_output_path and the
\* use of its path: another process can still create that path, the
\* transcode step can be taken whatever the filesystem holds, and ffmpeg is
\* then run with the overwrite flag -y on that very path.
C8_CheckThenUseNotAtomic ==
    /\ (pc = "returned" /\ op = "convert")
          => /\ ENABLED Transcode
             /\ \A f \in Universe \ fs : ENABLED ExternalCreate(f)
    /\ spawn # None
          => /\ OverwriteFlag(Unwrap(spawn).args) = "-y"
             /\ OutputArg(Unwrap(spawn).args) = Unwrap(output_path)

\* ffmpeg ran with -y and succeeded on a path that was occupied when it was
\* spawned, although the path was free when it was chosen.
C8_Witness ==
    /\ ConvertDone
    /\ spawn # None
    /\ Unwrap(spawn).occupied
    /\ Unwrap(spawn).outcome = "ok"
    /\ OverwriteFlag(Unwrap(spawn).args) = "-y"
    /\ OutputArg(Unwrap(spawn).args) \in Universe
    /\ Unwrap(result).kind = "Ok"

\* C10: convert_file returns Ok only when find_ffmpeg found a binary and
\* the transcode exited 0, and then returns the path
\* get_unique_output_path computed; when find_ffmpeg returns None it returns
\* "ffmpeg not found" with no output path computed and no process spawned;
\* when the transcode cannot be spawned or exits non-zero it returns an
\* error.
C10_ConvertResult ==
    ConvertDone =>
        LET r == Unwrap(result)
        IN /\ ffmpeg_path = FindFfmpeg.result
           /\ r.kind = "Ok"
                 => /\ ffmpeg_path # None
                    /\ spawn # None
                    /\ Unwrap(spawn).outcome = "ok"
                    /\ IF platform = "windows"
                       THEN Unwrap(spawn).args[2] = Unwrap(ffmpeg_path)
                       ELSE Unwrap(spawn).program = Unwrap(ffmpeg_path)
                    /\ OutputArg(Unwrap(spawn).args) = r.value
                    /\ output_path # None
                    /\ r.value = Unwrap(output_path)
           /\ ffmpeg_path = None
                 => /\ r.kind = "Err"
                    /\ r.value = "ffmpeg not found"
                    /\ output_path = None
                    /\ checks = 0
                    /\ spawn = None
           /\ ffmpeg_path # None
                 => /\ spawn # None
                    /\ checks >= 1
                    /\ Unwrap(spawn).outcome # "ok" => r.kind = "Err"
                    /\ Unwrap(spawn).outcome = "ok" => r.kind = "Ok"

\* A conversion succeeded on a suffixed path.
C10_Witness ==
    /\ ConvertDone
    /\ Unwrap(result).kind = "Ok"
    /\ checks > 1
    /\ Unwrap(result).value = Unwrap(output_path)

====
